---- MODULE Spec2Model ----
(***************************************************************************)
(* Alert deduplication cache of examples/integration/scripts/              *)
(* deduplicate-alerts.py.                                                  *)
(*                                                                         *)
(* The cache is a directory of files <hash>.json shared by independent,    *)
(* short-lived invocations of the script.  Every invocation sweeps the     *)
(* directory, reads one alert, looks its hash up, and on a miss writes a   *)
(* new record and applies the suppression rules.  Each action below is one *)
(* file-system operation of the script together with the local computation *)
(* that follows it, so that the interleavings of concurrent invocations    *)
(* are the interleavings of these operations.                              *)
(*                                                                         *)
(* The clock unit is one hour, the default CACHE_DURATION of 3600 s.        *)
(***************************************************************************)
EXTENDS Naturals, Integers, FiniteSets, Sequences, TLC

\* Total number of invocations started in one behaviour when they may
\* overlap, when they run one after another, when they run one after
\* another on the larger set of alerts, when file operations may fail, and
\* when they run one after another on alerts with missing and extra fields.
MaxRuns == 2
MaxSeqRuns == 3
MaxRuleRuns == 2
MaxFaultRuns == 2
MaxHashRuns == 2
\* Largest value of the clock.
MaxTime == 2

\* ALERT_CACHE_DURATION, default 3600 s: one clock unit.
CACHE_DURATION == 1
\* Business hours of should_suppress_alert: 9 <= current_hour <= 17.
BusinessStart == 9
BusinessEnd == 17

\* The invocations that may run at the same time.
Procs == {"p1", "p2"}
\* time.localtime().tm_hour at clock 0: one hour before either bound of the
\* business hours, so that the clock crosses the bound.
EpochHours == {BusinessStart - 1, BusinessEnd - 1}

VARIABLES
    files,      \* CACHE_DIR: file name (hash) -> content
    now,        \* time.time()
    pc,         \* position of each invocation in the script
    alert,      \* alert_data of each invocation
    todo,       \* files of the glob that cleanup_expired_cache has yet to visit
    cur,        \* cache_file of the loop of cleanup_expired_cache
    sweepTime,  \* current_time of cleanup_expired_cache
    data,       \* cache_data of is_duplicate_alert / cache_alert
    orphan,     \* the open file handle refers to a file that was unlinked
    verdict,    \* result of should_suppress_alert
    found,      \* what is_duplicate_alert met in its current call
    epochHour,  \* time.localtime().tm_hour at clock 0
    skipped,    \* files the sweep left unvisited when it was aborted
    runs,       \* number of invocations started
    seen,       \* per hash: timestamp of the latest record written by cache_alert
    nobs        \* per hash: lookups answered since (and including) that record

vars == <<files, now, pc, alert, todo, cur, sweepTime, data, orphan, verdict,
          found, epochHour, skipped, runs, seen, nobs>>

\* The variables of the invocations' sweep, of their lookup and insert, and
\* the observation history.
sweepVars == <<todo, cur, sweepTime, skipped>>
lookupVars == <<alert, data, verdict, found>>
histVars == <<seen, nobs>>

----------------------------------------------------------------------------
(* Alerts and their hash                                                   *)

\* A message is a sequence of words.  normalize_message rewrites the words
\* that carry a varying value and lower-cases the rest.
Lower(w) ==
    CASE w = "CPU" -> "cpu"
      [] w = "Test" -> "test"
      [] w = "LOW" -> "low"
      [] OTHER -> w

NormalizeWord(w) ==
    CASE w \in {"12:03:01", "12:04:07"} -> "[time]"
      [] w \in {"95.2%", "97.5%"} -> "[percentage]"
      [] OTHER -> Lower(w)

normalize_message(message) ==
    [i \in 1..Len(message) |-> NormalizeWord(message[i])]

\* Variant: a missing key reads as a null of its own, not as the default.
GetOrNull(alert_data, key, default) ==
    IF key \in DOMAIN alert_data THEN alert_data[key]
    ELSE IF key = "message" THEN <<"null">> ELSE "null"

\* alert_data.get(key, default)
Get(alert_data, key, default) ==
    IF key \in DOMAIN alert_data THEN alert_data[key] ELSE default

\* sha256 over the sorted-key JSON of the four key fields: modelled as the
\* four fields themselves (the hash is taken to be free of collisions).
generate_alert_hash(alert_data) ==
    [alert_type |-> Get(alert_data, "type", ""),
     message    |-> normalize_message(Get(alert_data, "message", <<>>)),
     service    |-> Get(alert_data, "service", ""),
     severity   |-> Get(alert_data, "severity", "")]

AlertCpu1 ==
    [service |-> "db1", severity |-> "low", type |-> "cpu",
     message |-> <<"CPU", "at", "95.2%">>]
AlertCpu2 ==
    [service |-> "db1", severity |-> "low", type |-> "cpu",
     message |-> <<"CPU", "at", "97.5%">>]
AlertTest ==
    [service |-> "db1", severity |-> "critical", type |-> "general",
     message |-> <<"Test", "alert">>]

AlertDemo ==
    [service |-> "web", severity |-> "info", type |-> "general",
     message |-> <<"demo", "alert">>]
AlertLowTest ==
    [service |-> "web", severity |-> "LOW", type |-> "general",
     message |-> <<"testing", "alert">>]
AlertDisk ==
    [service |-> "db1", severity |-> "critical", type |-> "disk",
     message |-> <<"disk", "full">>]

\* Alerts with key fields missing, with key fields empty, and with a field
\* that is none of the key fields.
AlertBare == [message |-> <<"disk", "at", "95.2%">>]
AlertBlank ==
    [message |-> <<"disk", "at", "97.5%">>, type |-> "", severity |-> "",
     service |-> ""]
AlertBlankExtra ==
    [service |-> "", severity |-> "", type |-> "", host |-> "h1",
     message |-> <<"disk", "at", "95.2%">>]
AlertNoMessage == [service |-> "web", severity |-> "high", type |-> "network"]
AlertEmptyMessage ==
    [service |-> "web", severity |-> "high", type |-> "network",
     message |-> <<>>]

\* The alerts the invocations read, the larger set read where the
\* suppression rules are examined, and the set read where the hash is.
Alerts == {AlertCpu1, AlertCpu2, AlertTest}
RuleAlerts == Alerts \cup {AlertDemo, AlertLowTest, AlertDisk}
HashAlerts ==
    {AlertBare, AlertBlank, AlertBlankExtra, AlertNoMessage,
     AlertEmptyMessage}
NoAlert == [none |-> TRUE]

Hashes == {generate_alert_hash(a) : a \in Alerts}
AllHashes == {generate_alert_hash(a) : a \in RuleAlerts \cup HashAlerts}

----------------------------------------------------------------------------
(* Cache files                                                             *)

\* No file of that name.
Absent == [kind |-> "absent"]
\* A file json.load or cache_data['timestamp'] fails on: an empty file
\* (opened for writing, not yet written) or any other malformed content.
Corrupt == [kind |-> "corrupt"]

IsRecord(c) == c.kind = "record"

Record(ts, ls, n, a) ==
    [kind |-> "record", timestamp |-> ts, last_seen |-> ls, count |-> n,
     alert_data |-> a]

NoData == [kind |-> "none"]
NoVerdict == [suppress |-> FALSE, reason |-> "none"]
NoTime == 0 - 1

\* The suppression rules of should_suppress_alert after the cache.
IsTestKeyword(w) == w \in {"test", "testing", "demo"}

HasTestKeyword(message) ==
    \E i \in 1..Len(message) : IsTestKeyword(Lower(message[i]))

IsLowSeverity(a) == Lower(Get(a, "severity", "")) \in {"low", "info"}

\* Variant: the bounds of the business hours are exclusive.
InsideBusinessHours(h) == BusinessStart < h /\ h < BusinessEnd

InBusinessHours(h) == BusinessStart <= h /\ h <= BusinessEnd

Rules(a, h) ==
    IF IsLowSeverity(a) /\ InBusinessHours(h)
    THEN [suppress |-> TRUE, reason |-> "business hours"]
    ELSE IF HasTestKeyword(Get(a, "message", <<>>))
         THEN [suppress |-> TRUE, reason |-> "test alert"]
         ELSE [suppress |-> FALSE, reason |-> ""]

DuplicateVerdict == [suppress |-> TRUE, reason |-> "duplicate"]

\* Variant: a record expires already at the age of CACHE_DURATION.
ExpiredAtBoundary(t, c) == t - c.timestamp >= CACHE_DURATION

\* time.time() - cache_data['timestamp'] > CACHE_DURATION
Expired(t, c) == t - c.timestamp > CACHE_DURATION

----------------------------------------------------------------------------
(* State                                                                   *)

\* time.localtime().tm_hour at clock t
LocalHour(t) == (epochHour + t) % 24

\* alert_hash of invocation p
Fp(p) == generate_alert_hash(alert[p])

\* Invocation p holds a handle opened with open(cache_file, 'w') on file f.
HoldsHandle(p, f) ==
    /\ pc[p] \in {"wflush", "cflush"}
    /\ Fp(p) = f

\* cache_file.unlink() of an existing file: the name goes, and what the
\* handles still open on it write is lost with the unlinked file.
Unlink(f) ==
    /\ files' = [files EXCEPT ![f] = Absent]
    /\ orphan' = [q \in Procs |-> orphan[q] \/ HoldsHandle(q, f)]

\* The cache directory outlives the invocations: it starts empty, or with
\* files an interrupted writer left truncated.
Init ==
    /\ files \in {[f \in AllHashes |-> IF f \in broken THEN Corrupt ELSE Absent] :
                   broken \in SUBSET Hashes}
    /\ now = 0
    /\ epochHour \in EpochHours
    /\ pc = [p \in Procs |-> "idle"]
    /\ alert = [p \in Procs |-> NoAlert]
    /\ todo = [p \in Procs |-> {}]
    /\ cur = [p \in Procs |-> NoAlert]
    /\ sweepTime = [p \in Procs |-> 0]
    /\ data = [p \in Procs |-> NoData]
    /\ orphan = [p \in Procs |-> FALSE]
    /\ verdict = [p \in Procs |-> NoVerdict]
    /\ found = [p \in Procs |-> "none"]
    /\ skipped = [p \in Procs |-> {}]
    /\ runs = 0
    /\ seen = [f \in AllHashes |-> NoTime]
    /\ nobs = [f \in AllHashes |-> 0]

\* The observation of hash f at the present time falls within
\* CACHE_DURATION of the latest first occurrence of f.
WithinWindow(f) == seen[f] # NoTime /\ now - seen[f] <= CACHE_DURATION

Observe(f) ==
    nobs' = IF WithinWindow(f) THEN [nobs EXCEPT ![f] = @ + 1] ELSE nobs

----------------------------------------------------------------------------
(* cleanup_expired_cache                                                   *)

\* __main__: setup_cache_dir(), then cleanup_expired_cache() up to the glob.
StartRun(p, limit) ==
    /\ pc[p] \in {"idle", "done", "rejected"}
    /\ runs < limit
    /\ runs' = runs + 1
    /\ pc' = [pc EXCEPT ![p] = "sweep"]
    /\ sweepTime' = [sweepTime EXCEPT ![p] = now]
    /\ todo' = [todo EXCEPT ![p] = {f \in AllHashes : files[f] # Absent}]
    /\ skipped' = [skipped EXCEPT ![p] = {}]
    /\ alert' = [alert EXCEPT ![p] = NoAlert]
    /\ verdict' = [verdict EXCEPT ![p] = NoVerdict]
    /\ UNCHANGED <<files, now, epochHour, cur, data, orphan, found, histVars>>

\* Variant: the loop leaves an expired record where it is.
SweepReadKeepsExpired(p) ==
    /\ pc[p] = "sweep"
    /\ \E f \in todo[p] :
        /\ cur' = [cur EXCEPT ![p] = f]
        /\ IF IsRecord(files[f])
           THEN /\ pc' = pc
                /\ todo' = [todo EXCEPT ![p] = @ \ {f}]
           ELSE /\ pc' = [pc EXCEPT ![p] = "s_except"]
                /\ todo' = todo
    /\ UNCHANGED <<files, now, epochHour, sweepTime, skipped, orphan, runs,
                   lookupVars, histVars>>

\* Loop body up to the test of the timestamp: open, json.load, compare.
SweepRead(p) ==
    /\ pc[p] = "sweep"
    /\ \E f \in todo[p] :
        /\ cur' = [cur EXCEPT ![p] = f]
        /\ IF IsRecord(files[f])
           THEN IF Expired(sweepTime[p], files[f])
                THEN /\ pc' = [pc EXCEPT ![p] = "s_unlink"]
                     /\ todo' = todo
                ELSE /\ pc' = pc
                     /\ todo' = [todo EXCEPT ![p] = @ \ {f}]
           ELSE /\ pc' = [pc EXCEPT ![p] = "s_except"]
                /\ todo' = todo
    /\ UNCHANGED <<files, now, epochHour, sweepTime, skipped, orphan, runs,
                   lookupVars, histVars>>

\* cache_file.unlink() of an expired record; FileNotFoundError is caught by
\* the loop's except clause.
SweepUnlink(p) ==
    /\ pc[p] = "s_unlink"
    /\ IF files[cur[p]] # Absent
       THEN /\ Unlink(cur[p])
            /\ pc' = [pc EXCEPT ![p] = "sweep"]
            /\ todo' = [todo EXCEPT ![p] = @ \ {cur[p]}]
       ELSE /\ pc' = [pc EXCEPT ![p] = "s_except"]
            /\ UNCHANGED <<files, orphan, todo>>
    /\ UNCHANGED <<now, epochHour, cur, sweepTime, skipped, runs, lookupVars,
                   histVars>>

\* The except clause of the loop: cache_file.unlink().  FileNotFoundError
\* raised here leaves the loop and is caught by the outer except clause.
SweepExcept(p) ==
    /\ pc[p] = "s_except"
    /\ pc' = [pc EXCEPT ![p] = "sweep"]
    /\ IF files[cur[p]] # Absent
       THEN /\ Unlink(cur[p])
            /\ todo' = [todo EXCEPT ![p] = @ \ {cur[p]}]
            /\ skipped' = skipped
       ELSE /\ todo' = [todo EXCEPT ![p] = {}]
            /\ skipped' = [skipped EXCEPT ![p] = todo[p] \ {cur[p]}]
            /\ UNCHANGED <<files, orphan>>
    /\ UNCHANGED <<now, epochHour, cur, sweepTime, runs, lookupVars, histVars>>

----------------------------------------------------------------------------
(* __main__ and should_suppress_alert                                      *)

\* cleanup_expired_cache returns; sys.stdin.read(), parse_alert_content,
\* generate_alert_hash.
ReadInputFrom(p, inputs) ==
    /\ pc[p] = "sweep"
    /\ todo[p] = {}
    /\ \E a \in inputs : alert' = [alert EXCEPT ![p] = a]
    /\ pc' = [pc EXCEPT ![p] = "exists"]
    /\ cur' = [cur EXCEPT ![p] = NoAlert]
    /\ sweepTime' = [sweepTime EXCEPT ![p] = 0]
    /\ UNCHANGED <<files, now, epochHour, todo, skipped, data, verdict,
                   found, orphan, runs, histVars>>

\* Inputs __main__ does not hand to should_suppress_alert, or on which
\* should_suppress_alert raises: no content; JSON that parses to a false
\* value ({}, null, [], 0); JSON that parses to a true value without .get
\* (a number, a non-empty list or string).
MalformedInputs ==
    {[malformed |-> "empty"], [malformed |-> "falsy"],
     [malformed |-> "not a dict"]}

\* __main__: the input is empty, or parse_alert_content returns a false
\* value, or generate_alert_hash raises on alert_data.get: logger.error and
\* sys.exit(1), before any file of the cache is touched.
RejectInput(p) ==
    /\ pc[p] = "sweep"
    /\ todo[p] = {}
    /\ \E c \in MalformedInputs : alert' = [alert EXCEPT ![p] = c]
    /\ pc' = [pc EXCEPT ![p] = "rejected"]
    /\ cur' = [cur EXCEPT ![p] = NoAlert]
    /\ sweepTime' = [sweepTime EXCEPT ![p] = 0]
    /\ UNCHANGED <<files, now, epochHour, todo, skipped, data, verdict,
                   found, orphan, runs, histVars>>

\* The arguments of sys.exit: for a suppressed alert, for an alert allowed
\* through, and for input that is rejected or an exception.
ExitSuppressed == 1
ExitAllowed == 0
ExitFailure == 1
NoExit == 0 - 1

\* The exit status of invocation p once it has left.
ExitCode(p) ==
    CASE pc[p] = "rejected" -> ExitFailure
      [] pc[p] = "done" /\ verdict[p].suppress -> ExitSuppressed
      [] pc[p] = "done" /\ ~verdict[p].suppress -> ExitAllowed
      [] OTHER -> NoExit

\* is_duplicate_alert: cache_file.exists()
Exists(p) ==
    /\ pc[p] = "exists"
    /\ IF files[Fp(p)] = Absent
       THEN /\ pc' = [pc EXCEPT ![p] = "copen"]
            /\ found' = [found EXCEPT ![p] = "absent"]
            /\ Observe(Fp(p))
       ELSE /\ pc' = [pc EXCEPT ![p] = "load"]
            /\ found' = found
            /\ nobs' = nobs
    /\ UNCHANGED <<files, now, epochHour, orphan, runs, sweepVars, alert,
                   data, verdict, seen>>

\* Variant: the update forgets the count.
TouchLastSeenOnly(c, t) == [c EXCEPT !.last_seen = t]

\* Variant: the update also moves the timestamp, which extends the window.
TouchExtendsWindow(c, t) ==
    [c EXCEPT !.timestamp = t, !.last_seen = t, !.count = @ + 1]

\* cache_data with last_seen and count updated
Touch(c, t) == [c EXCEPT !.last_seen = t, !.count = @ + 1]

\* Variant: a file that does not parse is unlinked before False is returned.
LoadRemovesCorrupt(p) ==
    /\ pc[p] = "load"
    /\ IF ~IsRecord(files[Fp(p)])
       THEN /\ pc' = [pc EXCEPT ![p] = "copen"]
            /\ found' = [found EXCEPT ![p] = files[Fp(p)].kind]
            /\ data' = data
            /\ Unlink(Fp(p))
       ELSE /\ UNCHANGED <<files, orphan>>
            /\ IF Expired(now, files[Fp(p)])
               THEN /\ pc' = [pc EXCEPT ![p] = "unlink"]
                    /\ found' = [found EXCEPT ![p] = "expired"]
                    /\ data' = data
               ELSE /\ pc' = [pc EXCEPT ![p] = "wopen"]
                    /\ found' = [found EXCEPT ![p] = "hit"]
                    /\ data' = [data EXCEPT ![p] = Touch(files[Fp(p)], now)]
    /\ Observe(Fp(p))
    /\ UNCHANGED <<now, epochHour, runs, sweepVars, alert, verdict, seen>>

\* is_duplicate_alert: open, json.load, test of the timestamp, and the update
\* of cache_data.  Any exception returns False.
Load(p) ==
    /\ pc[p] = "load"
    /\ IF ~IsRecord(files[Fp(p)])
       THEN /\ pc' = [pc EXCEPT ![p] = "copen"]
            /\ found' = [found EXCEPT ![p] = files[Fp(p)].kind]
            /\ data' = data
       ELSE IF Expired(now, files[Fp(p)])
            THEN /\ pc' = [pc EXCEPT ![p] = "unlink"]
                 /\ found' = [found EXCEPT ![p] = "expired"]
                 /\ data' = data
            ELSE /\ pc' = [pc EXCEPT ![p] = "wopen"]
                 /\ found' = [found EXCEPT ![p] = "hit"]
                 /\ data' = [data EXCEPT ![p] = Touch(files[Fp(p)], now)]
    /\ Observe(Fp(p))
    /\ UNCHANGED <<files, now, epochHour, orphan, runs, sweepVars, alert,
                   verdict, seen>>

\* is_duplicate_alert: cache_file.unlink() of the expired record, return
\* False; FileNotFoundError returns False as well.
LookupUnlink(p) ==
    /\ pc[p] = "unlink"
    /\ pc' = [pc EXCEPT ![p] = "copen"]
    /\ IF files[Fp(p)] # Absent
       THEN Unlink(Fp(p))
       ELSE UNCHANGED <<files, orphan>>
    /\ UNCHANGED <<now, epochHour, runs, sweepVars, lookupVars, histVars>>

\* open(cache_file, 'w'): creates the file or truncates it.
OpenForWrite(p) ==
    /\ files' = [files EXCEPT ![Fp(p)] = Corrupt]
    /\ orphan' = [orphan EXCEPT ![p] = FALSE]

\* Variant: the record is kept only for an alert the rules let through.
WriteUnlessSuppressed(p) ==
    /\ files' = IF orphan[p] \/ (pc[p] = "cflush"
                                  /\ Rules(alert[p], LocalHour(now)).suppress)
                THEN [files EXCEPT ![Fp(p)] =
                         IF orphan[p] THEN @ ELSE Absent]
                ELSE [files EXCEPT ![Fp(p)] = data[p]]
    /\ orphan' = [orphan EXCEPT ![p] = FALSE]

\* json.dump and close: the content reaches the file the handle is open on.
WriteAndClose(p) ==
    /\ files' = IF orphan[p] THEN files ELSE [files EXCEPT ![Fp(p)] = data[p]]
    /\ orphan' = [orphan EXCEPT ![p] = FALSE]

\* is_duplicate_alert: open(cache_file, 'w')
LookupOpen(p) ==
    /\ pc[p] = "wopen"
    /\ pc' = [pc EXCEPT ![p] = "wflush"]
    /\ OpenForWrite(p)
    /\ UNCHANGED <<now, epochHour, runs, sweepVars, lookupVars, histVars>>

\* is_duplicate_alert: json.dump, return True; should_suppress_alert
\* returns the duplicate verdict and the invocation exits.
LookupWrite(p) ==
    /\ pc[p] = "wflush"
    /\ pc' = [pc EXCEPT ![p] = "done"]
    /\ WriteAndClose(p)
    /\ verdict' = [verdict EXCEPT ![p] = DuplicateVerdict]
    /\ data' = [data EXCEPT ![p] = NoData]
    /\ found' = [found EXCEPT ![p] = "none"]
    /\ UNCHANGED <<now, epochHour, runs, sweepVars, alert, histVars>>

\* Variant: cache_data starts with a count of zero.
NewRecordUncounted(t, u, a) == Record(t, u, 0, a)

\* cache_data of cache_alert: 'timestamp' and 'last_seen' are two calls of
\* time.time(), at t and at u.
NewRecord(t, u, a) == Record(t, u, 1, a)

\* The readings of a second call of time.time() that follows one made now.
NextReadings == {t \in {now, now + 1} : t <= MaxTime}

\* cache_alert: build cache_data, the clock being read twice, and
\* open(cache_file, 'w').
CacheOpen(p) ==
    /\ pc[p] = "copen"
    /\ pc' = [pc EXCEPT ![p] = "cflush"]
    /\ \E u \in NextReadings :
          /\ now' = u
          /\ data' = [data EXCEPT ![p] = NewRecord(now, u, alert[p])]
    /\ OpenForWrite(p)
    /\ UNCHANGED <<epochHour, runs, sweepVars, alert, verdict, found,
                   histVars>>

\* cache_alert: json.dump; then the suppression rules of
\* should_suppress_alert, and the exit of the invocation.
CacheWrite(p) ==
    /\ pc[p] = "cflush"
    /\ pc' = [pc EXCEPT ![p] = "done"]
    /\ WriteAndClose(p)
    /\ seen' = [seen EXCEPT ![Fp(p)] = data[p].timestamp]
    /\ nobs' = [nobs EXCEPT ![Fp(p)] = 1]
    /\ verdict' = [verdict EXCEPT ![p] = Rules(alert[p], LocalHour(now))]
    /\ data' = [data EXCEPT ![p] = NoData]
    /\ found' = [found EXCEPT ![p] = "none"]
    /\ UNCHANGED <<now, epochHour, runs, sweepVars, alert>>

\* The clock advances.
Tick ==
    /\ now < MaxTime
    /\ now' = now + 1
    /\ UNCHANGED <<files, pc, epochHour, orphan, runs, sweepVars, lookupVars,
                   histVars>>

Start(p) == StartRun(p, MaxRuns)

ReadInput(p) == ReadInputFrom(p, Alerts)

\* The steps of an invocation but for the reading of its input.
Work(p) ==
    \/ SweepRead(p)
    \/ SweepUnlink(p)
    \/ SweepExcept(p)
    \/ Exists(p)
    \/ Load(p)
    \/ LookupUnlink(p)
    \/ LookupOpen(p)
    \/ LookupWrite(p)
    \/ CacheOpen(p)
    \/ CacheWrite(p)

Step(p) == ReadInput(p) \/ Work(p)

\* Invocations run concurrently.
Next ==
    \/ \E p \in Procs : Start(p)
    \/ \E p \in Procs : Step(p)
    \/ Tick

Spec == Init /\ [][Next]_vars

\* No invocation is between its start and its exit.
Quiescent == \A p \in Procs : pc[p] \in {"idle", "done", "rejected"}

\* Invocations run one after another.
SeqStart(p) == Quiescent /\ StartRun(p, MaxSeqRuns)

SeqNext ==
    \/ \E p \in Procs : SeqStart(p)
    \/ \E p \in Procs : Step(p)
    \/ Tick

SeqSpec == Init /\ [][SeqNext]_vars

\* Invocations run one after another on the larger set of alerts.
RuleStart(p) == Quiescent /\ StartRun(p, MaxRuleRuns)

RuleNext ==
    \/ \E p \in Procs : RuleStart(p)
    \/ \E p \in Procs : ReadInputFrom(p, RuleAlerts)
    \/ \E p \in Procs : RejectInput(p)
    \/ \E p \in Procs : Work(p)
    \/ Tick

RuleSpec == Init /\ [][RuleNext]_vars

\* The hash of the record an earlier invocation left in the cache.
LiveHash == generate_alert_hash(AlertCpu1)

\* The cache directory as an earlier invocation left it when it recorded a
\* first occurrence at the present time.
LiveInit ==
    /\ files \in {[f \in AllHashes |->
                      IF f = LiveHash THEN NewRecord(0, 0, AlertCpu1)
                      ELSE IF f \in broken THEN Corrupt ELSE Absent] :
                   broken \in SUBSET (Hashes \ {LiveHash})}
    /\ now = 0
    /\ epochHour \in EpochHours
    /\ pc = [p \in Procs |-> "idle"]
    /\ alert = [p \in Procs |-> NoAlert]
    /\ todo = [p \in Procs |-> {}]
    /\ cur = [p \in Procs |-> NoAlert]
    /\ sweepTime = [p \in Procs |-> 0]
    /\ data = [p \in Procs |-> NoData]
    /\ orphan = [p \in Procs |-> FALSE]
    /\ verdict = [p \in Procs |-> NoVerdict]
    /\ found = [p \in Procs |-> "none"]
    /\ skipped = [p \in Procs |-> {}]
    /\ runs = 0
    /\ seen = [f \in AllHashes |-> IF f = LiveHash THEN 0 ELSE NoTime]
    /\ nobs = [f \in AllHashes |-> IF f = LiveHash THEN 1 ELSE 0]

\* Invocations run concurrently on a cache that holds a record.
LiveSpec == LiveInit /\ [][Next]_vars

\* Invocations run one after another on alerts with missing and extra
\* fields.
HashStart(p) == Quiescent /\ StartRun(p, MaxHashRuns)

HashNext ==
    \/ \E p \in Procs : HashStart(p)
    \/ \E p \in Procs : ReadInputFrom(p, HashAlerts)
    \/ \E p \in Procs : Work(p)
    \/ Tick

HashSpec == Init /\ [][HashNext]_vars

----------------------------------------------------------------------------
(* File operations that raise OSError                                      *)

\* cleanup_expired_cache: open or json.load raises; the except clause of
\* the loop takes over.
SweepReadFail(p) ==
    /\ pc[p] = "sweep"
    /\ \E f \in todo[p] : cur' = [cur EXCEPT ![p] = f]
    /\ pc' = [pc EXCEPT ![p] = "s_except"]
    /\ UNCHANGED <<files, now, epochHour, todo, sweepTime, skipped, orphan,
                   runs, lookupVars, histVars>>

\* is_duplicate_alert: the stat of cache_file.exists() fails with an error
\* other than "no such file".  The call stands before the try block:
\* pathlib either raises the OSError, which ends the invocation in the
\* except clause of __main__, or answers False, as the Python version has it.
ExistsFail(p) ==
    /\ pc[p] = "exists"
    /\ \/ /\ pc' = [pc EXCEPT ![p] = "rejected"]
          /\ found' = found
       \/ /\ pc' = [pc EXCEPT ![p] = "copen"]
          /\ found' = [found EXCEPT ![p] = "absent"]
    /\ UNCHANGED <<files, now, epochHour, orphan, runs, sweepVars, alert,
                   data, verdict, histVars>>

\* Variant: the exception of the failed read leaves is_duplicate_alert.
LoadFailRaises(p) ==
    /\ pc[p] = "load"
    /\ pc' = [pc EXCEPT ![p] = "rejected"]
    /\ found' = [found EXCEPT ![p] = "oserror"]
    /\ UNCHANGED <<files, now, epochHour, orphan, runs, sweepVars, alert,
                   data, verdict, histVars>>

\* is_duplicate_alert: open(cache_file, 'r') or the read raises: return False.
LoadFail(p) ==
    /\ pc[p] = "load"
    /\ pc' = [pc EXCEPT ![p] = "copen"]
    /\ found' = [found EXCEPT ![p] = "oserror"]
    /\ UNCHANGED <<files, now, epochHour, orphan, runs, sweepVars, alert,
                   data, verdict, histVars>>

\* is_duplicate_alert: open(cache_file, 'w') raises: return False.
LookupOpenFail(p) ==
    /\ pc[p] = "wopen"
    /\ pc' = [pc EXCEPT ![p] = "copen"]
    /\ data' = [data EXCEPT ![p] = NoData]
    /\ found' = [found EXCEPT ![p] = "oserror"]
    /\ UNCHANGED <<files, now, epochHour, orphan, runs, sweepVars, alert,
                   verdict, histVars>>

\* is_duplicate_alert: json.dump or close raises after the file was
\* truncated: return False.
LookupWriteFail(p) ==
    /\ pc[p] = "wflush"
    /\ pc' = [pc EXCEPT ![p] = "copen"]
    /\ data' = [data EXCEPT ![p] = NoData]
    /\ found' = [found EXCEPT ![p] = "oserror"]
    /\ orphan' = [orphan EXCEPT ![p] = FALSE]
    /\ UNCHANGED <<files, now, epochHour, runs, sweepVars, alert, verdict,
                   histVars>>

\* cache_alert: open(cache_file, 'w') raises; the error is logged and
\* should_suppress_alert goes on to its rules.
CacheOpenFail(p) ==
    /\ pc[p] = "copen"
    /\ pc' = [pc EXCEPT ![p] = "done"]
    /\ verdict' = [verdict EXCEPT ![p] = Rules(alert[p], LocalHour(now))]
    /\ found' = [found EXCEPT ![p] = "none"]
    /\ UNCHANGED <<files, now, epochHour, orphan, runs, sweepVars, alert,
                   data, histVars>>

\* cache_alert: json.dump or close raises after the file was truncated; the
\* error is logged and should_suppress_alert goes on to its rules.
CacheWriteFail(p) ==
    /\ pc[p] = "cflush"
    /\ pc' = [pc EXCEPT ![p] = "done"]
    /\ verdict' = [verdict EXCEPT ![p] = Rules(alert[p], LocalHour(now))]
    /\ data' = [data EXCEPT ![p] = NoData]
    /\ found' = [found EXCEPT ![p] = "none"]
    /\ orphan' = [orphan EXCEPT ![p] = FALSE]
    /\ UNCHANGED <<files, now, epochHour, runs, sweepVars, alert, histVars>>

Fail(p) ==
    \/ SweepReadFail(p)
    \/ ExistsFail(p)
    \/ LoadFail(p)
    \/ LookupOpenFail(p)
    \/ LookupWriteFail(p)
    \/ CacheOpenFail(p)
    \/ CacheWriteFail(p)

\* Invocations run one after another on a store whose file operations may
\* fail.
FaultStart(p) == Quiescent /\ StartRun(p, MaxFaultRuns)

FaultNext ==
    \/ \E p \in Procs : FaultStart(p)
    \/ \E p \in Procs : Step(p)
    \/ \E p \in Procs : Fail(p)
    \/ Tick

FaultSpec == Init /\ [][FaultNext]_vars

----------------------------------------------------------------------------
(* Properties                                                              *)

\* Invocation p allowed its alert through.
Allowed(p) == pc[p] = "done" /\ ~verdict[p].suppress

\* A well-formed record younger than CACHE_DURATION.
Live(c) == IsRecord(c) /\ ~Expired(now, c)

\* Every invocation slot ran exactly once and left, all on alerts of the
\* same hash, all within the first instant of the clock (so that no record
\* expired), and none was suppressed by the business-hours or test rule.
AllObservedOnce ==
    /\ now = 0
    /\ runs = Cardinality(Procs)
    /\ \A p \in Procs : pc[p] = "done"
    /\ \A p, q \in Procs : Fp(p) = Fp(q)
    /\ \A p \in Procs : verdict[p].reason \in {"duplicate", ""}

\* C1: concurrent first observations of one hash that has no live record
\* end with exactly one invocation allowed and all the others suppressed
\* as duplicates.
C1_ExactlyOneFirstOccurrence ==
    AllObservedOnce =>
        /\ Cardinality({p \in Procs : Allowed(p)}) = 1
        /\ Cardinality({p \in Procs : verdict[p] = DuplicateVerdict})
               = Cardinality(Procs) - 1

\* Invocation p takes a step of cache_alert.
InsertStep(p) == pc[p] \in {"copen", "cflush"} /\ pc'[p] # pc[p]

\* C2: cache_alert on a hash that has a live record does not overwrite the
\* record and does not make its caller the first occurrence.
C2_InsertDoesNotOverwrite ==
    [][\A p \in Procs :
          (InsertStep(p) /\ Live(files[Fp(p)])) =>
              /\ files'[Fp(p)] = files[Fp(p)]
              /\ (pc'[p] = "done" => verdict'[p] = DuplicateVerdict)]_vars

\* is_duplicate_alert of invocation p returns.
Decides(p) ==
    /\ pc[p] \in {"exists", "load"}
    /\ pc'[p] \in {"copen", "unlink", "wopen"}

\* should_suppress_alert of invocation p returns after a hit, after a miss.
ReturnsAfterHit(p) == pc[p] = "wflush" /\ pc'[p] = "done"
ReturnsAfterMiss(p) == pc[p] = "cflush" /\ pc'[p] = "done"

\* C3: with invocations run one after another, an observation of a hash is
\* suppressed as a duplicate iff it falls within CACHE_DURATION of the
\* first occurrence; beyond it the observation is a first occurrence again
\* and leaves a record with a new timestamp and count 1.
C3_DedupWindow ==
    [][\A p \in Procs :
          /\ Decides(p) => (pc'[p] = "wopen" <=> WithinWindow(Fp(p)))
          /\ ReturnsAfterHit(p) => verdict'[p] = DuplicateVerdict
          /\ ReturnsAfterMiss(p) =>
                /\ verdict'[p].reason # "duplicate"
                /\ IsRecord(files'[Fp(p)])
                /\ files'[Fp(p)].count = 1
                /\ files'[Fp(p)].timestamp <= now
                /\ seen[Fp(p)] # NoTime =>
                      files'[Fp(p)].timestamp > seen[Fp(p)] + CACHE_DURATION
      ]_vars

\* An invocation is about to write a first occurrence for a hash whose
\* earlier first occurrence is older than CACHE_DURATION, after another
\* invocation was suppressed as a duplicate.
C3_Witness ==
    \E p, q \in Procs :
        /\ pc[p] = "cflush"
        /\ seen[Fp(p)] # NoTime
        /\ data[p].timestamp > seen[Fp(p)] + CACHE_DURATION
        /\ pc[q] = "done"
        /\ verdict[q] = DuplicateVerdict

\* C4: with invocations run one after another, the count of a record is
\* the number of observations of its hash that fell within CACHE_DURATION
\* of the first one, the first included.
C4_CountIsObservations ==
    Quiescent =>
        \A f \in AllHashes :
            IsRecord(files[f]) => files[f].count = nobs[f] /\ nobs[f] >= 1

\* A record has counted as many observations as invocations were run.
C4_Witness ==
    /\ Quiescent
    /\ \E f \in Hashes :
          /\ IsRecord(files[f])
          /\ files[f].count = MaxSeqRuns
          /\ nobs[f] = MaxSeqRuns

\* cache_alert of invocation p fails to write, or finds that a first
\* occurrence of the hash was recorded within CACHE_DURATION.
InsertFails(p) ==
    \/ CacheOpenFail(p)
    \/ CacheWriteFail(p)
    \/ CacheWrite(p) /\ WithinWindow(Fp(p))

\* C5: after a failed insert the verdict is the duplicate verdict.
C5_FailedInsertSuppresses ==
    [][\A p \in Procs : InsertFails(p) => verdict'[p] = DuplicateVerdict]_vars

\* C6: with invocations run one after another, once a first occurrence of a
\* hash was recorded, every observation of the hash within CACHE_DURATION
\* is a hit and gets the duplicate verdict, whatever the rules say of it.
C6_DedupBeforeRules ==
    [][\A p \in Procs :
          /\ (Decides(p) /\ WithinWindow(Fp(p))) => pc'[p] = "wopen"
          /\ ReturnsAfterHit(p) => verdict'[p] = DuplicateVerdict
      ]_vars

\* An alert that the rules suppress was suppressed as a duplicate.
C6_Witness ==
    \E p \in Procs :
        /\ pc[p] = "done"
        /\ verdict[p] = DuplicateVerdict
        /\ Rules(alert[p], LocalHour(now)).suppress

\* The verdict the rules give in the words of the specification: the
\* markers are looked for in the normalized message, and the severity is
\* read without regard to case.
HasMarker(a) ==
    \E i \in DOMAIN generate_alert_hash(a).message :
        generate_alert_hash(a).message[i] \in {"test", "testing", "demo"}

QuietSeverity(a) == \E v \in {"low", "info"} : Lower(a.severity) = v

RuleVerdict(a, h) ==
    CASE QuietSeverity(a) /\ h \in BusinessStart..BusinessEnd
            -> [suppress |-> TRUE, reason |-> "business hours"]
      [] ~(QuietSeverity(a) /\ h \in BusinessStart..BusinessEnd)
            /\ HasMarker(a)
            -> [suppress |-> TRUE, reason |-> "test alert"]
      [] OTHER -> [suppress |-> FALSE, reason |-> ""]

\* C7: for a first occurrence the verdict is that of the rules, in order:
\* low or info severity within the business hours, bounds included; a
\* message with a test marker; otherwise allowed with an empty reason.
C7_RulesInOrder ==
    [][\A p \in Procs :
          ReturnsAfterMiss(p) =>
              verdict'[p] = RuleVerdict(alert[p], LocalHour(now))]_vars

\* A low-severity alert was allowed in the hour after the business hours.
C7_Witness ==
    \E p \in Procs :
        /\ pc[p] = "done"
        /\ alert[p].severity = "low"
        /\ ~verdict[p].suppress
        /\ verdict[p].reason = ""
        /\ now = MaxTime
        /\ LocalHour(now) = BusinessEnd + 1

\* cleanup_expired_cache of invocation p has returned and the input is not
\* yet read.
SweepDone(p) == pc[p] = "sweep" /\ todo[p] = {}

\* C8: with invocations run one after another, when the sweep has returned
\* no record older than CACHE_DURATION at the sweep's time is left, and
\* every record within CACHE_DURATION is there as it was.
C8_SweepCorrect ==
    \A p \in Procs :
        SweepDone(p) =>
            \A f \in AllHashes :
                /\ IsRecord(files[f]) => ~Expired(sweepTime[p], files[f])
                /\ (seen[f] # NoTime
                        /\ sweepTime[p] - seen[f] <= CACHE_DURATION) =>
                      /\ IsRecord(files[f])
                      /\ files[f].timestamp = seen[f]
                      /\ files[f].count = nobs[f]

\* The sweep has returned; it removed the record of a hash first seen more
\* than CACHE_DURATION before and kept one exactly CACHE_DURATION old, which
\* was written while the former was still within CACHE_DURATION.
C8_Witness ==
    \E p \in Procs :
        /\ SweepDone(p)
        /\ \E f, g \in Hashes :
              /\ seen[f] # NoTime
              /\ sweepTime[p] - seen[f] > CACHE_DURATION
              /\ files[f] = Absent
              /\ seen[g] - seen[f] <= CACHE_DURATION
              /\ sweepTime[p] - seen[g] = CACHE_DURATION
              /\ IsRecord(files[g])

\* C9: a sweep visits every file of its glob, whatever happens to one of
\* them.
C9_SweepVisitsAll == \A p \in Procs : skipped[p] = {}

\* is_duplicate_alert of invocation p returns on a file that does not parse.
LoadsCorrupt(p) ==
    /\ pc[p] = "load"
    /\ pc'[p] # "load"
    /\ files[Fp(p)] = Corrupt

\* C10 as stated: the lookup that meets a malformed file returns a miss and
\* has removed the file.
C10_LookupRemovesCorrupt ==
    [][\A p \in Procs :
          LoadsCorrupt(p) =>
              /\ pc'[p] = "copen"
              /\ files'[Fp(p)] = Absent]_vars

\* C10: the lookup that meets a malformed file returns a miss without an
\* error and leaves the store as it is.
C10_LookupIgnoresCorrupt ==
    [][\A p \in Procs :
          LoadsCorrupt(p) =>
              /\ pc'[p] = "copen"
              /\ files' = files]_vars

\* A lookup has returned a miss on a malformed file, which is still there.
C10_Witness ==
    \E p \in Procs :
        /\ pc[p] = "copen"
        /\ found[p] = "corrupt"
        /\ files[Fp(p)] = Corrupt

\* C11: an invocation on malformed input leaves with a status that is
\* neither the status of a suppressed alert nor that of an allowed one.
C11_MalformedIsDistinct ==
    \A p \in Procs :
        pc[p] = "rejected" =>
            /\ ExitCode(p) # ExitSuppressed
            /\ ExitCode(p) # ExitAllowed

\* A file operation of the try block of is_duplicate_alert fails for
\* invocation p: the read, the open for writing, or the write.
LookupFails(p) ==
    /\ pc[p] \in {"load", "wopen", "wflush"}
    /\ pc'[p] # pc[p]
    /\ found'[p] = "oserror"

\* C12: when reading or rewriting the record fails with an I/O error during
\* the lookup, is_duplicate_alert returns False (the invocation goes on to
\* cache_alert), and the verdict the invocation ends with is that of the
\* rules, not the duplicate verdict.
C12_LookupFailsOpen ==
    [][\A p \in Procs :
          /\ LookupFails(p) => pc'[p] = "copen"
          /\ (found[p] = "oserror" /\ pc'[p] # pc[p]) =>
                /\ pc'[p] \in {"cflush", "done"}
                /\ pc'[p] = "done" =>
                      verdict'[p] = Rules(alert[p], LocalHour(now))
      ]_vars

\* The lookup of a live record failed while writing the update, after the
\* file was truncated, and has returned False: cache_alert is next.
C12_Witness ==
    \E p \in Procs :
        /\ pc[p] = "copen"
        /\ found[p] = "oserror"
        /\ files[Fp(p)] = Corrupt
        /\ WithinWindow(Fp(p))

\* The file invocation p is about to unlink: in is_duplicate_alert the file
\* of its hash, in cleanup_expired_cache the file of the loop.
UnlinkTarget(p) == IF pc[p] = "unlink" THEN Fp(p) ELSE cur[p]

\* Invocation p runs cache_file.unlink() on a file that is no longer there.
DeletesAbsent(p) ==
    /\ pc[p] \in {"unlink", "s_unlink", "s_except"}
    /\ pc'[p] # pc[p]
    /\ files[UnlinkTarget(p)] = Absent

\* C13: the unlink of a file that is already absent is not an error and
\* leaves the store unchanged: the lookup returns its miss, and the sweep
\* goes on with the next file of its glob.
C13_DeleteIsIdempotent ==
    [][\A p \in Procs :
          DeletesAbsent(p) =>
              /\ files' = files
              /\ pc[p] = "unlink" => pc'[p] = "copen"
              /\ pc[p] \in {"s_unlink", "s_except"} =>
                    /\ pc'[p] = "sweep"
                    /\ todo'[p] = todo[p] \ {cur[p]}
      ]_vars

\* Every record of the store has last_seen >= timestamp and count >= 1.
RecordsWellFormed ==
    \A f \in AllHashes :
        IsRecord(files[f]) =>
            /\ files[f].last_seen >= files[f].timestamp
            /\ files[f].count >= 1

\* cache_alert of invocation p writes its record.
Inserts(p) == pc[p] = "cflush" /\ pc'[p] = "done" /\ IsRecord(files'[Fp(p)])

\* C14 as stated: every record has last_seen >= timestamp and count >= 1,
\* and the record cache_alert writes has timestamp = last_seen and count 1.
C14_NewRecordAtOneInstant ==
    [][/\ RecordsWellFormed'
       /\ \A p \in Procs :
             (Inserts(p) /\ ~orphan[p]) =>
                 /\ files'[Fp(p)].timestamp = files'[Fp(p)].last_seen
                 /\ files'[Fp(p)].count = 1
      ]_vars

\* C14: every record has last_seen >= timestamp and count >= 1, and the
\* record cache_alert writes has count 1 and two readings of the clock taken
\* during the call, timestamp <= last_seen <= the time of the write.
C14_RecordInvariant ==
    [][/\ RecordsWellFormed'
       /\ \A p \in Procs :
             (Inserts(p) /\ ~orphan[p]) =>
                 /\ files'[Fp(p)].timestamp <= files'[Fp(p)].last_seen
                 /\ files'[Fp(p)].last_seen <= now
                 /\ files'[Fp(p)].count = 1
      ]_vars

\* A record was inserted, and touched at a later time by a duplicate.
C14_Witness ==
    \E f \in Hashes :
        /\ IsRecord(files[f])
        /\ files[f].count > 1
        /\ files[f].last_seen > files[f].timestamp

\* The value of key field k of alert a, a missing field counting as the
\* empty string (the empty message).
KeyField(a, k) ==
    IF k \in DOMAIN a THEN a[k] ELSE IF k = "message" THEN <<>> ELSE ""

\* Alerts a and b agree on service, severity, type and normalized message.
SameKey(a, b) ==
    /\ \A k \in {"service", "severity", "type"} : KeyField(a, k) = KeyField(b, k)
    /\ normalize_message(KeyField(a, "message"))
           = normalize_message(KeyField(b, "message"))

\* Invocation p has read an alert.
HasAlert(p) == alert[p] \in HashAlerts

\* C15: alerts that agree on service, severity, type and normalized message
\* have the same hash, whatever other fields they carry and whether a key
\* field is missing or empty.
C15_HashOfKeyFields ==
    /\ \A a, b \in HashAlerts :
          SameKey(a, b) => generate_alert_hash(a) = generate_alert_hash(b)
    /\ \A p, q \in Procs :
          (HasAlert(p) /\ HasAlert(q) /\ SameKey(alert[p], alert[q])) =>
              Fp(p) = Fp(q)

\* An alert with empty key fields and a further field was suppressed as a
\* duplicate of an alert in which the key fields are missing.
C15_Witness ==
    \E p, q \in Procs :
        /\ alert[p] = AlertBare
        /\ alert[q] = AlertBlankExtra
        /\ pc[p] = "done"
        /\ pc[q] = "done"
        /\ verdict[q] = DuplicateVerdict

\* The invocations that have left with the duplicate verdict for hash f.
Hits(f) ==
    {p \in Procs : pc[p] = "done" /\ Fp(p) = f /\ verdict[p] = DuplicateVerdict}

\* C16: when every invocation that was started has returned a hit on the
\* record the cache held at the start, and the clock has not advanced, the
\* count of the record has grown by the number of these invocations.
C16_NoLostUpdate ==
    (/\ now = 0
     /\ Quiescent
     /\ Hits(LiveHash) # {}
     /\ runs = Cardinality(Hits(LiveHash))
     /\ IsRecord(files[LiveHash])) =>
        files[LiveHash].count = 1 + Cardinality(Hits(LiveHash))

\* is_duplicate_alert of invocation p finds a record within CACHE_DURATION.
LoadsHit(p) == pc[p] = "load" /\ pc'[p] = "wopen"

\* Invocation p takes a step of the rewrite of the record it hit.
RewriteStep(p) == pc[p] \in {"wopen", "wflush"} /\ pc'[p] # pc[p]

\* C17: with invocations run one after another, a hit rewrites the record
\* of its hash with the timestamp and the alert_data it had, a new last_seen
\* and the count plus one, and changes no other file; the timestamp stays
\* that of the first occurrence, so the window is not extended.
C17_HitFrame ==
    [][\A p \in Procs :
          /\ LoadsHit(p) =>
                /\ files' = files
                /\ data'[p].timestamp = files[Fp(p)].timestamp
                /\ data'[p].alert_data = files[Fp(p)].alert_data
                /\ data'[p].count = files[Fp(p)].count + 1
                /\ data'[p].last_seen = now
          /\ RewriteStep(p) =>
                \A g \in AllHashes \ {Fp(p)} : files'[g] = files[g]
          /\ ReturnsAfterHit(p) =>
                /\ files'[Fp(p)] = data[p]
                /\ files'[Fp(p)].timestamp = seen[Fp(p)]
      ]_vars

\* A duplicate was observed after the first occurrence, by an alert with
\* another message: the record keeps the timestamp and the alert_data of
\* the first occurrence, and the record of another hash is there.
C17_Witness ==
    \E p \in Procs :
        /\ pc[p] = "done"
        /\ verdict[p] = DuplicateVerdict
        /\ IsRecord(files[Fp(p)])
        /\ files[Fp(p)].last_seen > files[Fp(p)].timestamp
        /\ files[Fp(p)].alert_data # alert[p]
        /\ \E g \in Hashes \ {Fp(p)} : IsRecord(files[g])

\* cleanup_expired_cache of invocation p unlinks the file of its loop.
SweepDeletes(p) ==
    /\ pc[p] \in {"s_unlink", "s_except"}
    /\ files[cur[p]] # Absent
    /\ files'[cur[p]] = Absent

\* C18: the sweep of an invocation never unlinks a record that is within
\* CACHE_DURATION, nor a file another invocation has open for rewriting.
C18_SweepKeepsLive ==
    [][\A p \in Procs :
          SweepDeletes(p) =>
              /\ ~Live(files[cur[p]])
              /\ \A q \in Procs : ~HoldsHandle(q, cur[p])
      ]_vars

====
